---- MODULE Spec2Model ----
(***************************************************************************)
(* The achievement evaluation engine of SimpleCalorie:                     *)
(*   src/src/services/achievementChecker.ts   (the evaluator and rules)    *)
(*   src/src/services/userTrackingService.ts  (the progress store; the     *)
(*       achievementService functions are lines 153-237 of that file)      *)
(* The Firestore documents userAchievements/{userId} and the collection    *)
(* achievements are the shared state; every await of checkAchievements is  *)
(* a point where other invocations can run.                                *)
(***************************************************************************)
EXTENDS Integers, Sequences, FiniteSets, TLC

VARIABLES
    store,      \* userId -> the document userAchievements/{userId}, or NoDoc
    catalog,    \* the documents of the collection achievements, in query order
    inv,        \* invocation slot -> the frame of a checkAchievements call
    now,        \* the clock, in days since Epoch
    last        \* the operation performed by the last step (observation only)

vars == <<store, catalog, inv, now, last>>

----------------------------------------------------------------------------
(* Bounds *)

MaxInv == 2         \* invocation slots (overlapping checkAchievements calls)
MaxDay == 3         \* the clock visits days 0..MaxDay and NextMonthDay

Users == {"u1", "u2"}
Invocations == 1..MaxInv
Actions == {"meal_log", "photo_log", "late_night_log", "calorie_goal_met", "daily_log"}

----------------------------------------------------------------------------
(* JavaScript values of contextData and criteria.conditions *)

Str(s) == [t |-> "string", v |-> s]
Num(n) == [t |-> "number", v |-> n]
Bool(b) == [t |-> "boolean", v |-> b]
Undefined == [t |-> "undefined"]

\* x === y on primitives: same type and same value, no coercion
StrictEq(x, y) ==
    /\ x.t = y.t
    /\ (x.t = "undefined" \/ x.v = y.v)

\* data[key]: undefined when the key is absent
Get(data, key) == IF key \in DOMAIN data THEN data[key] ELSE Undefined

\* obj.field || dflt for a numeric optional field
OrZero(obj, field) == IF field \in DOMAIN obj THEN obj[field] ELSE 0

\* { ...p, ...q }
Spread(p, q) ==
    [f \in (DOMAIN p) \cup (DOMAIN q) |-> IF f \in DOMAIN q THEN q[f] ELSE p[f]]

EmptyMap == [k \in {} |-> 0]

----------------------------------------------------------------------------
(* The calendar: Date.getDate() of a day counted from Epoch *)

MonthLengths == <<31, 28, 31, 30, 31, 30, 31, 31, 30, 31, 30, 31>>
Epoch == [month |-> 2, date |-> 26]     \* day 0 is February 26th of a common year

RECURSIVE DateAfter(_, _, _)
DateAfter(month, date, days) ==
    IF days = 0 THEN [month |-> month, date |-> date]
    ELSE IF date = MonthLengths[month]
         THEN DateAfter((month % 12) + 1, 1, days - 1)
         ELSE DateAfter(month, date + 1, days - 1)

getDate(day) == DateAfter(Epoch.month, Epoch.date, day).date

\* The day one month and one day after Epoch: its day of month is the
\* day of month of Epoch plus one
NextMonthDay == MonthLengths[Epoch.month] + 1

\* The days on which events happen
Days == (0..MaxDay) \cup {NextMonthDay}

\* lastUpdated: null of the default-constructed tracker
NullTs == -1

----------------------------------------------------------------------------
(* Achievement definitions (types/achievements.ts): optional fields are   *)
(* fields that a record may lack.                                          *)

\* Catalogs the collection achievements can hold after seeding.
\* first_meal_log and night_owl are those of defaultAchievements.ts.
MealCatalog ==
    << [id |-> "first_meal_log", type |-> "single",
        criteria |-> [action |-> "meal_log", count |-> 1],
        reward |-> [points |-> 10]],
       [id |-> "photo_meal", type |-> "single",
        criteria |-> [action |-> "meal_log",
                      conditions |-> [hasPhoto |-> Bool(TRUE)]]],
       [id |-> "share", type |-> "social",
        criteria |-> [action |-> "meal_log", count |-> 1],
        reward |-> [points |-> 25]],
       [id |-> "meal_pair", type |-> "cumulative",
        criteria |-> [action |-> "meal_log", count |-> 2],
        reward |-> [points |-> 3]] >>

ConditionCatalog ==
    << [id |-> "night_owl", type |-> "single",
        criteria |-> [action |-> "late_night_log",
                      conditions |-> [timeAfter |-> Str("22:00")]],
        reward |-> [points |-> 15]],
       [id |-> "late_photo", type |-> "single",
        criteria |-> [action |-> "late_night_log",
                      conditions |-> [timeAfter |-> Str("22:00"),
                                      hasPhoto |-> Bool(TRUE)]],
        reward |-> [points |-> 5]] >>

CumulativeCatalog ==
    << [id |-> "photo_trio", type |-> "cumulative",
        criteria |-> [action |-> "photo_log", count |-> 3],
        reward |-> [points |-> 100]],
       [id |-> "photo_fan", type |-> "cumulative",
        criteria |-> [action |-> "photo_log", count |-> 3],
        reward |-> [points |-> 20]],
       [id |-> "any_goal", type |-> "single",
        criteria |-> [action |-> "calorie_goal_met", conditions |-> EmptyMap],
        reward |-> [points |-> 7]] >>

StreakCatalog ==
    << [id |-> "three_day_streak", type |-> "streak",
        criteria |-> [action |-> "daily_log", count |-> 3],
        reward |-> [points |-> 50]],
       [id |-> "goal_once", type |-> "cumulative",
        criteria |-> [action |-> "calorie_goal_met"],
        reward |-> [points |-> 1]] >>

\* achievements created without criteria.count
CountlessCatalog ==
    << [id |-> "goal_once", type |-> "cumulative",
        criteria |-> [action |-> "calorie_goal_met"],
        reward |-> [points |-> 1]],
       [id |-> "goal_streak", type |-> "streak",
        criteria |-> [action |-> "daily_log"],
        reward |-> [points |-> 2]] >>

\* the catalog of the first-meal scenario: first_meal_log alone
FirstMealCatalog ==
    << [id |-> "first_meal_log", type |-> "single",
        criteria |-> [action |-> "meal_log", count |-> 1],
        reward |-> [points |-> 10]] >>

OverlapCatalog ==
    << [id |-> "photo_trio", type |-> "cumulative",
        criteria |-> [action |-> "photo_log", count |-> 3],
        reward |-> [points |-> 100]],
       [id |-> "first_meal_log", type |-> "single",
        criteria |-> [action |-> "meal_log", count |-> 1],
        reward |-> [points |-> 10]] >>

Catalogs ==
    {MealCatalog, ConditionCatalog, CumulativeCatalog, StreakCatalog,
     FirstMealCatalog, CountlessCatalog}
OverlapCatalogs == {OverlapCatalog}

\* contextData of a call
ContextData ==
    { EmptyMap,
      [timeAfter |-> Str("22:00")],
      [timeAfter |-> Str("23:00")],
      [timeAfter |-> Num(22)],
      [hasPhoto |-> Bool(TRUE)],
      [timeAfter |-> Str("22:00"), hasPhoto |-> Bool(TRUE)],
      [timeAfter |-> Str("22:00"), hasPhoto |-> Bool(FALSE)] }

CatalogIds(cat) == {cat[k].id : k \in 1..Len(cat)}

\* the document of the catalog with the given id
Definition(cat, id) == cat[CHOOSE k \in 1..Len(cat) : cat[k].id = id]

\* achievement.reward?.points || 0
\* RewardPoints that reads no reward
RewardPointsNone(achievement) == 0

RewardPoints(achievement) ==
    IF "reward" \in DOMAIN achievement THEN achievement.reward.points ELSE 0

\* listByAction without the where clause
listWholeCatalog(cat, action) == cat

\* getDocs(query(achievementsRef, where("criteria.action", "==", action))).docs
listByAction(cat, action) ==
    SelectSeq(cat, LAMBDA d : d.criteria.action = action)

----------------------------------------------------------------------------
(* Progress rules (achievementChecker.ts) *)

\* checkSingleTypeAchievement that passes over the keys absent from data
checkSingleTypeSkipAbsent(achievement, data) ==
    IF "conditions" \in DOMAIN achievement.criteria
    THEN LET conditions == achievement.criteria.conditions
         IN  IF \E key \in (DOMAIN conditions) \cap (DOMAIN data) :
                     ~StrictEq(Get(data, key), conditions[key])
             THEN [achieved |-> FALSE]
             ELSE [achieved |-> TRUE]
    ELSE [achieved |-> TRUE]

checkSingleTypeAchievement(achievement, data) ==
    IF "conditions" \in DOMAIN achievement.criteria
    THEN LET conditions == achievement.criteria.conditions
         IN  IF \E key \in DOMAIN conditions :
                     ~StrictEq(Get(data, key), conditions[key])
             THEN [achieved |-> FALSE]
             ELSE [achieved |-> TRUE]
    ELSE [achieved |-> TRUE]

\* checkCumulativeAchievement that needs criteria.count to be present
checkCumulativeCountRequired(achievement, progress) ==
    LET newCount == OrZero(progress, "currentCount") + 1
        achieved == /\ "count" \in DOMAIN achievement.criteria
                    /\ newCount >= achievement.criteria.count
    IN  [achieved |-> achieved,
         progress |-> Spread(progress, [currentCount |-> newCount])]

checkCumulativeAchievement(achievement, progress) ==
    LET newCount == OrZero(progress, "currentCount") + 1
        achieved == newCount >= OrZero(achievement.criteria, "count")
    IN  [achieved |-> achieved,
         progress |-> Spread(progress, [currentCount |-> newCount])]

\* Max that keeps its first argument
MaxFirst(a, b) == a

Max(a, b) == IF a >= b THEN a ELSE b

\* checkStreakAchievement that asks for more than criteria.count
checkStreakAboveCount(achievement, progress, today) ==
    LET hasLast == progress.lastUpdated # NullTs
        isConsecutiveDay ==
            \/ (hasLast /\ getDate(progress.lastUpdated) = getDate(today) - 1)
            \/ ~hasLast
        newStreak == IF isConsecutiveDay
                     THEN OrZero(progress, "currentStreak") + 1
                     ELSE 1
        newHighestStreak == Max(newStreak, OrZero(progress, "highestStreak"))
        achieved == newStreak > OrZero(achievement.criteria, "count")
    IN  [achieved |-> achieved,
         progress |-> Spread(progress, [currentStreak |-> newStreak,
                                        highestStreak |-> newHighestStreak])]

\* today is new Date() at evaluation time
checkStreakAchievement(achievement, progress, today) ==
    LET hasLast == progress.lastUpdated # NullTs
        isConsecutiveDay ==
            \/ (hasLast /\ getDate(progress.lastUpdated) = getDate(today) - 1)
            \/ ~hasLast
        newStreak == IF isConsecutiveDay
                     THEN OrZero(progress, "currentStreak") + 1
                     ELSE 1
        newHighestStreak == Max(newStreak, OrZero(progress, "highestStreak"))
        achieved == newStreak >= OrZero(achievement.criteria, "count")
    IN  [achieved |-> achieved,
         progress |-> Spread(progress, [currentStreak |-> newStreak,
                                        highestStreak |-> newHighestStreak])]

\* checkSocialAchievement that falls back on the single-type rule
checkSocialAsSingle(achievement, data) ==
    checkSingleTypeAchievement(achievement, data)

checkSocialAchievement(achievement, data) == [achieved |-> FALSE]

DefaultProgress(achievementId) ==
    [achievementId |-> achievementId, currentCount |-> 0, currentStreak |-> 0,
     highestStreak |-> 0, lastUpdated |-> NullTs, completed |-> FALSE]

\* userAchievements.progressTrackers[achievement.id] || { ...defaults }
CurrentProgress(userAchievements, achievementId) ==
    IF achievementId \in DOMAIN userAchievements.progressTrackers
    THEN userAchievements.progressTrackers[achievementId]
    ELSE DefaultProgress(achievementId)

\* checkSingleAchievement that evaluates a streak on the day data.date names
checkSingleAchievementOnDataDate(achievement, data, userAchievements, today) ==
    LET currentProgress == CurrentProgress(userAchievements, achievement.id)
    IN  CASE achievement.type = "single" ->
                checkSingleTypeAchievement(achievement, data)
          [] achievement.type = "cumulative" ->
                checkCumulativeAchievement(achievement, currentProgress)
          [] achievement.type = "streak" ->
                checkStreakAchievement(achievement, currentProgress,
                    IF "date" \in DOMAIN data THEN data.date.v ELSE today)
          [] achievement.type = "social" ->
                checkSocialAchievement(achievement, data)
          [] OTHER -> [achieved |-> FALSE]

checkSingleAchievement(achievement, data, userAchievements, today) ==
    LET currentProgress == CurrentProgress(userAchievements, achievement.id)
    IN  CASE achievement.type = "single" ->
                checkSingleTypeAchievement(achievement, data)
          [] achievement.type = "cumulative" ->
                checkCumulativeAchievement(achievement, currentProgress)
          [] achievement.type = "streak" ->
                checkStreakAchievement(achievement, currentProgress, today)
          [] achievement.type = "social" ->
                checkSocialAchievement(achievement, data)
          [] OTHER -> [achieved |-> FALSE]

----------------------------------------------------------------------------
(* The progress store (achievementService, userTrackingService.ts 153-237) *)

NoDoc == [exists |-> FALSE]

includes(arr, x) == \E k \in 1..Len(arr) : arr[k] = x

\* arrayUnion that appends without looking
arrayAppend(arr, x) == Append(arr, x)

\* Firestore arrayUnion: appends the element unless it is already present
arrayUnion(arr, x) == IF includes(arr, x) THEN arr ELSE Append(arr, x)

\* updateDoc with the field path progressTrackers.<id>: the value at that
\* path is replaced by the given map
\* SetTracker that writes the field progressTrackers as a whole
SetTrackerWholeMap(trackers, id, value) == [k \in {id} |-> value]

SetTracker(trackers, id, value) ==
    [k \in (DOMAIN trackers) \cup {id} |-> IF k = id THEN value ELSE trackers[k]]

\* setDoc(userAchievementsRef, initialData): the document is (over)written
initializeUserAchievements(userId) ==
    [exists |-> TRUE,
     userId |-> userId,
     earnedAchievements |-> <<>>,
     progressTrackers |-> EmptyMap,
     totalPoints |-> 0]

\* awardAchievement that adds the supplied value to the stored total
awardAchievementAdding(doc, achievementId, points, serverTimestamp) ==
    [doc EXCEPT
        !.earnedAchievements = arrayUnion(@, achievementId),
        !.totalPoints = @ + points,
        !.progressTrackers =
            SetTracker(@, achievementId,
                       [achievementId |-> achievementId,
                        completed |-> TRUE,
                        lastUpdated |-> serverTimestamp])]

awardAchievement(doc, achievementId, points, serverTimestamp) ==
    [doc EXCEPT
        !.earnedAchievements = arrayUnion(@, achievementId),
        !.totalPoints = points,
        !.progressTrackers =
            SetTracker(@, achievementId,
                       [achievementId |-> achievementId,
                        completed |-> TRUE,
                        lastUpdated |-> serverTimestamp])]

\* updateAchievementProgress that marks the tracker completed, as
\* awardAchievement does
updateProgressCompleting(doc, achievementId, progress, serverTimestamp) ==
    [doc EXCEPT
        !.progressTrackers =
            SetTracker(@, achievementId,
                       Spread(progress, [lastUpdated |-> serverTimestamp,
                                         completed |-> TRUE]))]

updateAchievementProgress(doc, achievementId, progress, serverTimestamp) ==
    [doc EXCEPT
        !.progressTrackers =
            SetTracker(@, achievementId,
                       Spread(progress, [lastUpdated |-> serverTimestamp]))]

----------------------------------------------------------------------------
(* checkAchievements (achievementChecker.ts 19-60) *)

\* LoopBody without the "already earned" test
LoopBodyNoSkip(doc, userAchievements, achievement, data, today) ==
    LET result == checkSingleAchievement(achievement, data,
                                         userAchievements, today)
    IN  IF result.achieved
        THEN [doc |-> awardAchievement(doc, achievement.id,
                          userAchievements.totalPoints
                              + RewardPoints(achievement), today),
              op |-> "award", result |-> result]
        ELSE IF "progress" \in DOMAIN result
        THEN [doc |-> updateAchievementProgress(doc, achievement.id,
                          result.progress, today),
              op |-> "update", result |-> result]
        ELSE [doc |-> doc, op |-> "none", result |-> result]

\* One iteration of the for loop over achievementsSnapshot.docs: the
\* candidate is judged against the snapshot userAchievements loaded at the
\* start of the call, and the write goes to the stored document doc.
\* Yields the document after the iteration, the store call issued (op) and
\* the result of the rule.
LoopBody(doc, userAchievements, achievement, data, today) ==
    IF includes(userAchievements.earnedAchievements, achievement.id)
    THEN [doc |-> doc, op |-> "skip", result |-> [achieved |-> FALSE]]
    ELSE LET result == checkSingleAchievement(achievement, data,
                                              userAchievements, today)
         IN  IF result.achieved
             THEN [doc |-> awardAchievement(doc, achievement.id,
                               userAchievements.totalPoints
                                   + RewardPoints(achievement), today),
                   op |-> "award", result |-> result]
             ELSE IF "progress" \in DOMAIN result
             THEN [doc |-> updateAchievementProgress(doc, achievement.id,
                               result.progress, today),
                   op |-> "update", result |-> result]
             ELSE [doc |-> doc, op |-> "none", result |-> result]

\* The loop over the remaining candidates, run without interruption
RECURSIVE RunLoop(_, _, _, _, _)
RunLoop(doc, userAchievements, docs, data, today) ==
    IF docs = <<>> THEN doc
    ELSE RunLoop(LoopBody(doc, userAchievements, Head(docs), data, today).doc,
                 userAchievements, Tail(docs), data, today)

\* A whole call that nothing interleaves with, on the user's document
checkAchievements(doc, cat, action, data, today) ==
    IF ~doc.exists THEN doc
    ELSE RunLoop(doc, doc, listByAction(cat, action), data, today)

----------------------------------------------------------------------------
(* The state machine *)

Idle == [pc |-> "idle"]

Active(i) == inv[i].pc # "idle"
Busy(u) == \E i \in Invocations : Active(i) /\ inv[i].userId = u

\* No user document exists yet; the catalog has been seeded
InitWith(catalogs) ==
    /\ store = [u \in Users |-> NoDoc]
    /\ catalog \in catalogs
    /\ inv = [i \in Invocations |-> Idle]
    /\ now = 0
    /\ last = [op |-> "boot"]

Init == InitWith(Catalogs)

\* initializeUserAchievements(userId)
Initialize(u) ==
    /\ store' = [store EXCEPT ![u] = initializeUserAchievements(u)]
    /\ last' = [op |-> "initialize", userId |-> u]
    /\ UNCHANGED <<catalog, inv, now>>

\* Call that loads the first document of the collection
CallFirstDocument(i, u, action, data) ==
    /\ ~Active(i)
    /\ IF store[u].exists
       THEN inv' = [inv EXCEPT ![i] =
                       [pc |-> "query", userId |-> u, action |-> action,
                        data |-> data,
                        userAchievements |->
                            store[CHOOSE v \in Users : store[v].exists]]]
       ELSE inv' = inv
    /\ last' = [op |-> "call", inv |-> i, userId |-> u, action |-> action,
                data |-> data, loaded |-> store[u].exists]
    /\ UNCHANGED <<store, catalog, now>>

\* Call that creates the document it does not find and goes on
CallInitializing(i, u, action, data) ==
    /\ ~Active(i)
    /\ LET doc == IF store[u].exists THEN store[u]
                  ELSE initializeUserAchievements(u)
       IN  /\ store' = [store EXCEPT ![u] = doc]
           /\ inv' = [inv EXCEPT ![i] =
                         [pc |-> "query", userId |-> u, action |-> action,
                          data |-> data, userAchievements |-> doc]]
    /\ last' = [op |-> "call", inv |-> i, userId |-> u, action |-> action,
                data |-> data, loaded |-> TRUE]
    /\ UNCHANGED <<catalog, now>>

\* checkAchievements(userId, action, data) up to the first await:
\* getUserAchievements reads the document; an absent document ends the call
Call(i, u, action, data) ==
    /\ ~Active(i)
    /\ IF store[u].exists
       THEN inv' = [inv EXCEPT ![i] =
                       [pc |-> "query", userId |-> u, action |-> action,
                        data |-> data, userAchievements |-> store[u]]]
       ELSE inv' = inv
    /\ last' = [op |-> "call", inv |-> i, userId |-> u, action |-> action,
                data |-> data, loaded |-> store[u].exists]
    /\ UNCHANGED <<store, catalog, now>>

\* the catalog query returns; an empty result ends the call
Query(i) ==
    /\ inv[i].pc = "query"
    /\ LET docs == listByAction(catalog, inv[i].action)
       IN  inv' = [inv EXCEPT ![i] =
                      IF docs = <<>> THEN Idle
                      ELSE Spread(inv[i], [pc |-> "loop", docs |-> docs])]
    /\ last' = [op |-> "query", inv |-> i, userId |-> inv[i].userId,
                action |-> inv[i].action, data |-> inv[i].data]
    /\ UNCHANGED <<store, catalog, now>>

\* one iteration of the loop, with its store write; after the last
\* candidate the call returns
Step(i) ==
    /\ inv[i].pc = "loop"
    /\ LET f == inv[i]
           achievement == Head(f.docs)
           r == LoopBody(store[f.userId], f.userAchievements, achievement,
                         f.data, now)
       IN  /\ store' = [store EXCEPT ![f.userId] = r.doc]
           /\ inv' = [inv EXCEPT ![i] =
                         IF Tail(f.docs) = <<>> THEN Idle
                         ELSE [f EXCEPT !.docs = Tail(f.docs)]]
           /\ last' = [op |-> r.op, inv |-> i, userId |-> f.userId,
                       action |-> f.action, data |-> f.data,
                       id |-> achievement.id,
                       progress |-> CurrentProgress(f.userAchievements,
                                                    achievement.id),
                       result |-> r.result]
    /\ UNCHANGED <<catalog, now>>

\* StepFails inside a try/catch of the loop body: the loop goes on with the
\* next candidate
StepFailsCaught(i) ==
    /\ inv[i].pc = "loop"
    /\ LET f == inv[i]
           achievement == Head(f.docs)
           r == LoopBody(store[f.userId], f.userAchievements, achievement,
                         f.data, now)
       IN  /\ r.op \in {"award", "update"}
           /\ inv' = [inv EXCEPT ![i] =
                         IF Tail(f.docs) = <<>> THEN Idle
                         ELSE [f EXCEPT !.docs = Tail(f.docs)]]
           /\ last' = [op |-> "error", inv |-> i, userId |-> f.userId,
                       action |-> f.action, data |-> f.data,
                       id |-> achievement.id,
                       k |-> Len(listByAction(catalog, f.action))
                                 - Len(f.docs) + 1,
                       write |-> r.op]
    /\ UNCHANGED <<store, catalog, now>>

\* The store write of the iteration rejects: nothing is written, the
\* rejection leaves the for loop and checkAchievements, and the call is over.
\* k is the position of the candidate in the query result.
StepFails(i) ==
    /\ inv[i].pc = "loop"
    /\ LET f == inv[i]
           achievement == Head(f.docs)
           r == LoopBody(store[f.userId], f.userAchievements, achievement,
                         f.data, now)
       IN  /\ r.op \in {"award", "update"}
           /\ inv' = [inv EXCEPT ![i] = Idle]
           /\ last' = [op |-> "error", inv |-> i, userId |-> f.userId,
                       action |-> f.action, data |-> f.data,
                       id |-> achievement.id,
                       k |-> Len(listByAction(catalog, f.action))
                                 - Len(f.docs) + 1,
                       write |-> r.op]
    /\ UNCHANGED <<store, catalog, now>>

\* days pass
Tick(k) ==
    /\ k > 0
    /\ now + k \in Days
    /\ now' = now + k
    /\ last' = [op |-> "tick"]
    /\ UNCHANGED <<store, catalog, inv>>

\* Calls for a user run one at a time: a call starts, and the store is
\* initialized, only while no other call for that user is in progress.
SeqUsers == {"u1"}

Next ==
    \/ \E u \in SeqUsers : ~Busy(u) /\ Initialize(u)
    \/ \E u \in SeqUsers, action \in Actions, data \in ContextData :
            ~Busy(u) /\ Call(1, u, action, data)
    \/ Query(1)
    \/ Step(1)
    \/ \E k \in 1..NextMonthDay : Tick(k)

Spec == Init /\ [][Next]_vars

\* Calls run one at a time on a store whose writes may reject
FailureCatalogs == {MealCatalog}

InitFailure == InitWith(FailureCatalogs)

NextFailure ==
    \/ Next
    \/ StepFails(1)

SpecFailure == InitFailure /\ [][NextFailure]_vars

\* The exported store functions called directly, one call at a time.
\* updateDoc rejects when the document does not exist.
PartialProgress ==
    { [currentCount |-> 1],
      [currentStreak |-> 1, highestStreak |-> 1],
      [currentCount |-> 2, completed |-> FALSE] }

PointValues == {0, 10, 25}

Award(u, achievementId, points) ==
    /\ IF store[u].exists
       THEN store' = [store EXCEPT
                        ![u] = awardAchievement(@, achievementId, points, now)]
       ELSE store' = store
    /\ last' = [op |-> "awardAchievement", userId |-> u,
                id |-> achievementId, points |-> points,
                rejected |-> ~store[u].exists]
    /\ UNCHANGED <<catalog, inv, now>>

UpdateProgress(u, achievementId, progress) ==
    /\ IF store[u].exists
       THEN store' = [store EXCEPT
                        ![u] = updateAchievementProgress(@, achievementId,
                                                         progress, now)]
       ELSE store' = store
    /\ last' = [op |-> "updateAchievementProgress", userId |-> u,
                id |-> achievementId, progress |-> progress,
                rejected |-> ~store[u].exists]
    /\ UNCHANGED <<catalog, inv, now>>

InitStore == InitWith(OverlapCatalogs)

NextStore ==
    \/ \E u \in SeqUsers : Initialize(u)
    \/ \E u \in SeqUsers, id \in CatalogIds(catalog), points \in PointValues :
            Award(u, id, points)
    \/ \E u \in SeqUsers, id \in CatalogIds(catalog),
          progress \in PartialProgress : UpdateProgress(u, id, progress)
    \/ \E k \in 1..NextMonthDay : Tick(k)

SpecStore == InitStore /\ [][NextStore]_vars

\* Calls run one at a time against the catalog of the streak achievements
StreakCatalogs == {StreakCatalog}

InitStreak == InitWith(StreakCatalogs)

SpecStreak == InitStreak /\ [][Next]_vars

\* Calls run one at a time within one day, against the catalogs in which an
\* action has several candidates
OrderCatalogs == {MealCatalog, CumulativeCatalog}

InitOrder == InitWith(OrderCatalogs)

NextOrder ==
    \/ \E u \in SeqUsers : ~Busy(u) /\ Initialize(u)
    \/ \E u \in SeqUsers, action \in Actions, data \in ContextData :
            ~Busy(u) /\ Call(1, u, action, data)
    \/ Query(1)
    \/ Step(1)

SpecOrder == InitOrder /\ [][NextOrder]_vars

\* Invocations for a user overlap freely, on a store initialized once
OverlapData == {EmptyMap}

InitOverlap == InitWith(OverlapCatalogs)

NextOverlap ==
    \/ \E u \in SeqUsers : ~store[u].exists /\ Initialize(u)
    \/ \E i \in Invocations, u \in SeqUsers, action \in Actions,
          data \in OverlapData : Call(i, u, action, data)
    \/ \E i \in Invocations : Query(i)
    \/ \E i \in Invocations : Step(i)

SpecOverlap == InitOverlap /\ [][NextOverlap]_vars

\* Invocations for a user overlap freely over several days, against a
\* cumulative and a streak achievement with a threshold
CumulativeThresholdCatalog ==
    << [id |-> "log_trio", type |-> "cumulative",
        criteria |-> [action |-> "daily_log", count |-> 3],
        reward |-> [points |-> 100]] >>

StreakThresholdCatalog ==
    << [id |-> "two_day_streak", type |-> "streak",
        criteria |-> [action |-> "daily_log", count |-> 2],
        reward |-> [points |-> 50]] >>

ThresholdCatalogs == {CumulativeThresholdCatalog, StreakThresholdCatalog}

ThresholdActions == {"daily_log"}

\* the last day the clock of this specification reaches
LastThresholdDay == 1

InitThreshold == InitWith(ThresholdCatalogs)

NextThreshold ==
    \/ \E u \in SeqUsers : ~store[u].exists /\ Initialize(u)
    \/ \E i \in Invocations, u \in SeqUsers, action \in ThresholdActions,
          data \in OverlapData : Call(i, u, action, data)
    \/ \E i \in Invocations : Query(i)
    \/ \E i \in Invocations : Step(i)
    \/ now < LastThresholdDay /\ Tick(1)

SpecThreshold == InitThreshold /\ [][NextThreshold]_vars

\* Invocations for different users interleave freely
InitUsers == InitWith(OverlapCatalogs)

NextUsers ==
    \/ \E u \in Users : ~store[u].exists /\ Initialize(u)
    \/ \E i \in Invocations, u \in Users, action \in Actions,
          data \in OverlapData : ~Busy(u) /\ Call(i, u, action, data)
    \/ \E i \in Invocations : Query(i)
    \/ \E i \in Invocations : Step(i)

SpecUsers == InitUsers /\ [][NextUsers]_vars

----------------------------------------------------------------------------
(* onMealLogged (achievementTriggers.ts 17-38) *)

\* a Date whose getHours() is hour
DateValue(hour) == [t |-> "object", v |-> hour]

\* the hours of the timestamps of the meals logged
Hours == {3, 4, 12, 21, 22, 23}

\* the catalog the meal trigger runs against: first_meal_log and night_owl
\* of defaultAchievements.ts and a cumulative photo achievement
TriggerCatalog ==
    << [id |-> "first_meal_log", type |-> "single",
        criteria |-> [action |-> "meal_log", count |-> 1],
        reward |-> [points |-> 10]],
       [id |-> "photo_trio", type |-> "cumulative",
        criteria |-> [action |-> "photo_log", count |-> 3],
        reward |-> [points |-> 100]],
       [id |-> "night_owl", type |-> "single",
        criteria |-> [action |-> "late_night_log",
                      conditions |-> [timeAfter |-> Str("22:00")]],
        reward |-> [points |-> 15]] >>

\* The slot of the checkAchievements call the trigger awaits, and the slot
\* that holds the frame of onMealLogged itself
CheckFrame == 1
TriggerFrame == 2

\* hour >= 22 || hour < 4
IsLateNight(hour) == hour >= 22 \/ hour < 4

\* NextCheck with the time test ahead of the photo test
NextCheckLateFirst(at, hour, hasPhoto) ==
    CASE at = "meal_log" ->
            IF IsLateNight(hour) THEN "late_night_log"
            ELSE IF hasPhoto THEN "photo_log" ELSE "return"
      [] at = "late_night_log" ->
            IF hasPhoto THEN "photo_log" ELSE "return"
      [] OTHER -> "return"

\* the check onMealLogged issues once the one for the action at has
\* completed, "return" when none is left
NextCheck(at, hour, hasPhoto) ==
    CASE at = "meal_log" ->
            IF hasPhoto THEN "photo_log"
            ELSE IF IsLateNight(hour) THEN "late_night_log" ELSE "return"
      [] at = "photo_log" ->
            IF IsLateNight(hour) THEN "late_night_log" ELSE "return"
      [] OTHER -> "return"

\* the contextData onMealLogged passes with each action
MealCheckData(at, hour, hasPhoto) ==
    CASE at = "meal_log" ->
            [timestamp |-> DateValue(hour), hasPhoto |-> Bool(hasPhoto)]
      [] at = "photo_log" -> [timestamp |-> DateValue(hour)]
      [] at = "late_night_log" ->
            [timeAfter |-> Str(ToString(hour) \o ":00")]

\* onMealLogged({userId, timestamp, calories, hasPhoto}) is entered
OnMealLogged(u, hour, hasPhoto) ==
    /\ ~Active(CheckFrame)
    /\ ~Active(TriggerFrame)
    /\ inv' = [inv EXCEPT ![TriggerFrame] =
                  [pc |-> "onMealLogged", userId |-> u, hour |-> hour,
                   hasPhoto |-> hasPhoto, at |-> "meal_log",
                   issued |-> <<>>]]
    /\ last' = [op |-> "onMealLogged", userId |-> u, hour |-> hour,
                hasPhoto |-> hasPhoto]
    /\ UNCHANGED <<store, catalog, now>>

\* await checkAchievements(data.userId, at, {...}): the call starts as in
\* Call, and onMealLogged resumes after it at the next check; issued keeps
\* the actions of the calls made so far
IssueCheck ==
    LET t == inv[TriggerFrame]
    IN  /\ t.pc = "onMealLogged"
        /\ t.at # "return"
        /\ ~Active(CheckFrame)
        /\ LET data == MealCheckData(t.at, t.hour, t.hasPhoto)
           IN  /\ inv' = [inv EXCEPT
                    ![TriggerFrame] =
                        [t EXCEPT !.at = NextCheck(t.at, t.hour, t.hasPhoto),
                                  !.issued = Append(@, t.at)],
                    ![CheckFrame] =
                        IF store[t.userId].exists
                        THEN [pc |-> "query", userId |-> t.userId,
                              action |-> t.at, data |-> data,
                              userAchievements |-> store[t.userId]]
                        ELSE Idle]
               /\ last' = [op |-> "call", inv |-> CheckFrame,
                           userId |-> t.userId, action |-> t.at,
                           data |-> data, loaded |-> store[t.userId].exists]
        /\ UNCHANGED <<store, catalog, now>>

\* the last awaited check has completed: onMealLogged resolves
TriggerReturn ==
    LET t == inv[TriggerFrame]
    IN  /\ t.pc = "onMealLogged"
        /\ t.at = "return"
        /\ ~Active(CheckFrame)
        /\ inv' = [inv EXCEPT ![TriggerFrame] = Idle]
        /\ last' = [op |-> "return", userId |-> t.userId, hour |-> t.hour,
                    hasPhoto |-> t.hasPhoto, issued |-> t.issued]
        /\ UNCHANGED <<store, catalog, now>>

\* the store write of the awaited check rejects (StepFails): the rejection
\* leaves checkAchievements and, through the await, onMealLogged
TriggerStepFails ==
    LET t == inv[TriggerFrame]
        f == inv[CheckFrame]
    IN  /\ t.pc = "onMealLogged"
        /\ f.pc = "loop"
        /\ LET achievement == Head(f.docs)
               r == LoopBody(store[f.userId], f.userAchievements,
                             achievement, f.data, now)
           IN  /\ r.op \in {"award", "update"}
               /\ inv' = [inv EXCEPT ![CheckFrame] = Idle,
                                     ![TriggerFrame] = Idle]
               /\ last' = [op |-> "error", inv |-> CheckFrame,
                           userId |-> f.userId, action |-> f.action,
                           data |-> f.data, id |-> achievement.id,
                           write |-> r.op, hour |-> t.hour,
                           hasPhoto |-> t.hasPhoto, issued |-> t.issued]
        /\ UNCHANGED <<store, catalog, now>>

TriggerCatalogs == {TriggerCatalog}

InitTriggers == InitWith(TriggerCatalogs)

NextTriggers ==
    \/ \E u \in SeqUsers : ~store[u].exists /\ ~Busy(u) /\ Initialize(u)
    \/ \E u \in SeqUsers, hour \in Hours, hasPhoto \in BOOLEAN :
            OnMealLogged(u, hour, hasPhoto)
    \/ IssueCheck
    \/ Query(CheckFrame)
    \/ Step(CheckFrame)
    \/ TriggerStepFails
    \/ TriggerReturn

SpecTriggers == InitTriggers /\ [][NextTriggers]_vars

----------------------------------------------------------------------------
(* Properties *)

\* the steps of a checkAchievements call
CheckerOps == {"call", "query", "skip", "none", "award", "update", "error"}
\* the steps of the loop that issue a store write
WriteOps == {"award", "update"}

Earned(doc, id) == doc.exists /\ includes(doc.earnedAchievements, id)

\* sum of reward.points (0 without reward) over the ids of an array
RECURSIVE SumPoints(_, _)
SumPoints(cat, ids) ==
    IF ids = <<>> THEN 0
    ELSE RewardPoints(Definition(cat, Head(ids))) + SumPoints(cat, Tail(ids))

\* C1: with calls run one at a time, a step of checkAchievements never
\* issues award or updateProgress for an id that is already in
\* earnedAchievements, and leaves progressTrackers[id] as it was.
IdempotentTerminalState ==
    [][\A u \in Users : \A id \in CatalogIds(catalog) :
          (Earned(store[u], id) /\ last'.op \in CheckerOps /\ last'.userId = u)
          => /\ ~(last'.op \in WriteOps /\ last'.id = id)
             /\ store'[u].progressTrackers[id] = store[u].progressTrackers[id]
      ]_vars

\* C1 witness: a later call reached an earned achievement and passed over it
EarnedAchievementSkipped ==
    /\ last.op = "skip"
    /\ Earned(store[last.userId], last.id)
    /\ store[last.userId].progressTrackers[last.id].completed

\* C2: after every completed call, totalPoints is the sum of reward.points
\* over earnedAchievements.
TotalPointsIsSumOfEarned ==
    \A u \in Users :
        (store[u].exists /\ ~Busy(u))
        => store[u].totalPoints = SumPoints(catalog, store[u].earnedAchievements)

\* C3: no write of a checkAchievements invocation lowers totalPoints,
\* whatever the interleaving of the invocations.
TotalPointsNeverDecreases ==
    [][\A u \in Users :
          (store[u].exists /\ last'.op \in CheckerOps)
          => store'[u].totalPoints >= store[u].totalPoints
      ]_vars

\* C4: an id that is in earnedAchievements stays in it, whatever store
\* operation or checkAchievements step comes next.
EarnedNeverRemoved ==
    [][\A u \in Users : \A id \in CatalogIds(catalog) :
          Earned(store[u], id) => Earned(store'[u], id)
      ]_vars

\* the rule was applied to the candidate (the candidate was not skipped)
EvaluatedOps == {"none", "award", "update"}

LastDefinition == Definition(catalog, last.id)

\* currentCount of the stored tracker, 0 without tracker
StoredCount(doc, id) ==
    IF id \in DOMAIN doc.progressTrackers
    THEN OrZero(doc.progressTrackers[id], "currentCount")
    ELSE 0

\* C5: for a cumulative achievement with criteria.count = n >= 1, the call
\* that finds the stored count c (0 without tracker) persists c + 1 without
\* awarding while c + 1 < n, and the call with c + 1 = n awards it: the id
\* joins earnedAchievements and totalPoints grows by reward.points.
CumulativeThreshold ==
    [][\A u \in Users :
          (/\ last'.op \in WriteOps
           /\ last'.userId = u
           /\ Definition(catalog, last'.id).type = "cumulative"
           /\ OrZero(Definition(catalog, last'.id).criteria, "count") >= 1)
          => LET d == Definition(catalog, last'.id)
                 c == StoredCount(store[u], d.id)
             IN  IF c + 1 < d.criteria.count
                 THEN /\ last'.op = "update"
                      /\ ~Earned(store'[u], d.id)
                      /\ store'[u].progressTrackers[d.id].currentCount = c + 1
                      /\ store'[u].totalPoints = store[u].totalPoints
                 ELSE /\ last'.op = "award"
                      /\ Earned(store'[u], d.id)
                      /\ store'[u].totalPoints
                             = store[u].totalPoints + RewardPoints(d)
      ]_vars

StreakEvaluated ==
    /\ last.op \in WriteOps
    /\ LastDefinition.type = "streak"

\* C6: a streak event without prior progress yields currentStreak = 1, and
\* one evaluated on the calendar day after lastUpdated yields the previous
\* currentStreak plus one, also across the end of a month.
StreakAdvance ==
    StreakEvaluated
    => /\ (last.progress.lastUpdated = NullTs
              => last.result.progress.currentStreak = 1)
       /\ (last.progress.lastUpdated # NullTs
              /\ now = last.progress.lastUpdated + 1
              => last.result.progress.currentStreak
                     = OrZero(last.progress, "currentStreak") + 1)

\* C7: a streak event evaluated two or more calendar days after lastUpdated
\* sets currentStreak to 1.
StreakResetOnGap ==
    (/\ StreakEvaluated
     /\ last.progress.lastUpdated # NullTs
     /\ now >= last.progress.lastUpdated + 2)
    => last.result.progress.currentStreak = 1

\* criteria.conditions, empty when absent
ConditionsOf(achievement) ==
    IF "conditions" \in DOMAIN achievement.criteria
    THEN achievement.criteria.conditions
    ELSE EmptyMap

\* the key is present in data with the same type and the same value
Matches(data, key, value) ==
    /\ key \in DOMAIN data
    /\ data[key].t = value.t
    /\ data[key].v = value.v

\* C8: a single-type achievement is achieved (and awarded) by a call iff
\* every entry of criteria.conditions is matched exactly by contextData;
\* with {timeAfter: "22:00"} exactly when contextData.timeAfter is "22:00";
\* without conditions, or with empty conditions, always.
SingleConditionMatching ==
    (last.op \in EvaluatedOps /\ LastDefinition.type = "single")
    => LET conditions == ConditionsOf(LastDefinition)
           allMatch == \A key \in DOMAIN conditions :
                           Matches(last.data, key, conditions[key])
       IN  /\ last.result.achieved <=> allMatch
           /\ (last.op = "award") <=> last.result.achieved
           /\ conditions = [timeAfter |-> Str("22:00")]
                 => (last.result.achieved
                        <=> Matches(last.data, "timeAfter", Str("22:00")))
           /\ DOMAIN conditions = {} => last.result.achieved

\* C8 witness: an achievement with two conditions was judged on data that
\* matches both, and awarded
TwoConditionsMatched ==
    /\ last.op = "award"
    /\ LastDefinition.type = "single"
    /\ Cardinality(DOMAIN ConditionsOf(LastDefinition)) = 2
    /\ Earned(store[last.userId], last.id)

\* C9: a step of checkAchievements(userId, action, data) leaves alone every
\* achievement whose criteria.action differs from action: no write is
\* issued for it, and its membership in earnedAchievements and its entry of
\* progressTrackers are unchanged.
ActionFiltering ==
    [][\A u \in Users : \A id \in CatalogIds(catalog) :
          (/\ last'.op \in CheckerOps
           /\ last'.userId = u
           /\ store[u].exists
           /\ Definition(catalog, id).criteria.action # last'.action)
          => /\ ~(last'.op \in EvaluatedOps /\ last'.id = id)
             /\ Earned(store'[u], id) = Earned(store[u], id)
             /\ (id \in DOMAIN store'[u].progressTrackers)
                    = (id \in DOMAIN store[u].progressTrackers)
             /\ id \in DOMAIN store[u].progressTrackers
                    => store'[u].progressTrackers[id]
                           = store[u].progressTrackers[id]
      ]_vars

\* C9 witness: a call wrote the tracker of one achievement while the catalog
\* holds an unearned achievement of another action that the same data
\* would satisfy
OtherActionLeftAlone ==
    /\ last.op \in WriteOps
    /\ \E id \in CatalogIds(catalog) :
          /\ Definition(catalog, id).criteria.action # last.action
          /\ ~Earned(store[last.userId], id)
          /\ id \notin DOMAIN store[last.userId].progressTrackers
          /\ checkSingleAchievement(Definition(catalog, id), last.data,
                                    store[last.userId], now).achieved

\* the call that produced after from before awarded exactly one id
AwardedOne(before, after) ==
    Len(after.earnedAchievements) = Len(before.earnedAchievements) + 1

\* the id awarded last
LastAwarded(doc) == doc.earnedAchievements[Len(doc.earnedAchievements)]

\* C10: when one call awards exactly A and the next call exactly B, the
\* total after both is the total before plus the points of A and of B, and
\* the two calls made in the other order end with the same total.
PointsAccumulation ==
    \A u \in Users :
        (store[u].exists /\ ~Busy(u))
        => \A a1 \in Actions, d1 \in ContextData :
             LET s1 == checkAchievements(store[u], catalog, a1, d1, now)
             IN  AwardedOne(store[u], s1)
                 => \A a2 \in Actions, d2 \in ContextData :
                      LET s12 == checkAchievements(s1, catalog, a2, d2, now)
                          s2  == checkAchievements(store[u], catalog, a2, d2, now)
                          s21 == checkAchievements(s2, catalog, a1, d1, now)
                          A == LastAwarded(s1)
                          B == LastAwarded(s12)
                      IN  AwardedOne(s1, s12)
                          => /\ A # B
                             /\ s12.totalPoints
                                   = store[u].totalPoints
                                     + RewardPoints(Definition(catalog, A))
                                     + RewardPoints(Definition(catalog, B))
                             /\ (/\ AwardedOne(store[u], s2)
                                 /\ LastAwarded(s2) = B
                                 /\ AwardedOne(s2, s21)
                                 /\ LastAwarded(s21) = A)
                                => s21.totalPoints = s12.totalPoints

\* C10 witness: two achievements of different actions (hence awarded by two
\* separate calls) are earned, the second award has just been written, and
\* the total is the sum of both rewards
TwoSeparateAwards ==
    /\ last.op = "award"
    /\ ~Busy(last.userId)
    /\ LET doc == store[last.userId]
       IN  /\ Len(doc.earnedAchievements) = 2
           /\ Definition(catalog, doc.earnedAchievements[1]).criteria.action
                  # Definition(catalog, doc.earnedAchievements[2]).criteria.action
           /\ doc.totalPoints = SumPoints(catalog, doc.earnedAchievements)
           /\ doc.totalPoints > 0

\* C11: with the catalog holding first_meal_log alone and the aggregate of
\* user U as initialized, the loop step of checkAchievements(U, "meal_log",
\* {}) leaves earnedAchievements = [first_meal_log], totalPoints = 10 and
\* the tracker of first_meal_log completed; once that holds, no step of a
\* further checkAchievements(U, "meal_log", {}) changes the aggregate.
FirstMealScenario ==
    [][\A u \in Users :
          (/\ catalog = FirstMealCatalog
           /\ last'.op \in CheckerOps
           /\ last'.userId = u
           /\ last'.action = "meal_log"
           /\ last'.data = EmptyMap)
          => /\ (store[u] = initializeUserAchievements(u)
                    /\ last'.op \notin {"call", "query"})
                 => /\ last'.op = "award"
                    /\ store'[u].earnedAchievements = <<"first_meal_log">>
                    /\ store'[u].totalPoints = 10
                    /\ DOMAIN store'[u].progressTrackers = {"first_meal_log"}
                    /\ store'[u].progressTrackers["first_meal_log"].completed
             /\ Earned(store[u], "first_meal_log") => store'[u] = store[u]
      ]_vars

\* C11 witness: the second call has reached first_meal_log and passed over
\* it, the aggregate being the one the first call left
FirstMealLoggedTwice ==
    /\ catalog = FirstMealCatalog
    /\ last.op = "skip"
    /\ last.action = "meal_log"
    /\ last.data = EmptyMap
    /\ store[last.userId].earnedAchievements = <<"first_meal_log">>
    /\ store[last.userId].totalPoints = 10
    /\ store[last.userId].progressTrackers["first_meal_log"].completed

\* C12: a call of checkAchievements for a user whose aggregate does not
\* exist returns at once, whatever the action and the contextData: it
\* issues no award, no updateProgress and no initialize, no invocation is
\* left in progress, and the store still holds no aggregate for the user.
UninitializedUserIsNoOp ==
    [][\A u \in Users :
          (~store[u].exists /\ last'.op \in CheckerOps /\ last'.userId = u)
          => /\ last'.op = "call"
             /\ ~last'.loaded
             /\ ~store'[u].exists
             /\ store' = store
             /\ inv' = inv
             /\ ~Busy(u)'
      ]_vars

\* C12 witness: a call for a user without aggregate has just returned and
\* the store holds no aggregate for that user
CallWithoutAggregateReturned ==
    /\ last.op = "call"
    /\ ~last.loaded
    /\ last.action = "late_night_log"
    /\ last.data = [timeAfter |-> Str("23:00")]
    /\ ~store[last.userId].exists
    /\ ~Busy(last.userId)

\* C13: when the store write for a candidate rejects, the call ends with
\* that rejection: the store keeps what the earlier candidates wrote and
\* nothing more, the invocation is over with its remaining candidates
\* unevaluated, and the next step of the checker is a new call, neither a
\* later candidate nor a retry of the write.
PartialFailureStopsCall ==
    [][/\ last'.op = "error"
          => /\ inv[last'.inv].pc = "loop"
             /\ Head(inv[last'.inv].docs).id = last'.id
             /\ last'.write \in WriteOps
             /\ store' = store
             /\ inv'[last'.inv] = Idle
       /\ (last.op = "error" /\ last'.op \in CheckerOps)
          => last'.op = "call"
      ]_vars

\* C13 witness: the write for the second candidate of a meal_log call was
\* rejected after the award of the first; the first award is in the store,
\* the later candidate meal_pair has no tracker, and the call is over
SecondWriteRejected ==
    /\ last.op = "error"
    /\ last.k = 2
    /\ last.id = "photo_meal"
    /\ store[last.userId].earnedAchievements = <<"first_meal_log">>
    /\ "meal_pair" \notin DOMAIN store[last.userId].progressTrackers
    /\ ~Busy(last.userId)

\* C14: when two invocations for the same user overlap on a cumulative
\* achievement (the second loaded its snapshot at count c before the first
\* wrote) and c + 2 < criteria.count, the tracker holds c + 2 once the
\* second has written after the first.
NoLostUpdates ==
    [][\A i \in Invocations :
          (/\ last.op = "update"
           /\ last.inv # i
           /\ LastDefinition.type = "cumulative"
           /\ "count" \in DOMAIN LastDefinition.criteria
           /\ inv[i].pc = "loop"
           /\ inv[i].userId = last.userId
           /\ StoredCount(inv[i].userAchievements, last.id)
                  = OrZero(last.progress, "currentCount")
           /\ OrZero(last.progress, "currentCount") + 2
                  < LastDefinition.criteria.count
           /\ last'.op \in WriteOps
           /\ last'.inv = i
           /\ last'.id = last.id)
          => store'[last.userId].progressTrackers[last.id].currentCount
                 = OrZero(last.progress, "currentCount") + 2
      ]_vars

\* C15: once progressTrackers[id].completed is true in the store, no later
\* write by any invocation, overlapping or not, changes that tracker entry.
CompletedTrackerIsFinal ==
    [][\A u \in Users :
          (store[u].exists /\ store'[u].exists)
          => \A id \in DOMAIN store[u].progressTrackers :
                store[u].progressTrackers[id].completed
                => /\ id \in DOMAIN store'[u].progressTrackers
                   /\ store'[u].progressTrackers[id]
                          = store[u].progressTrackers[id]
      ]_vars

\* C16: after a cumulative achievement is awarded, the tracker stored for
\* it has completed = true and carries the count that met the threshold:
\* currentCount is present, is the count the rule reported, and is at least
\* criteria.count.
AwardKeepsFinalCount ==
    (/\ last.op = "award"
     /\ LastDefinition.type = "cumulative")
    => LET tracker == store[last.userId].progressTrackers[last.id]
       IN  /\ tracker.completed
           /\ "currentCount" \in DOMAIN tracker
           /\ tracker.currentCount = last.result.progress.currentCount
           /\ tracker.currentCount >= OrZero(LastDefinition.criteria, "count")

\* the number of positions of the array arr that hold x
Occurrences(arr, x) == Cardinality({k \in 1..Len(arr) : arr[k] = x})

\* C17: after awardAchievement(userId, achievementId, points) has written,
\* achievementId is in earnedAchievements exactly once, no id is there
\* twice, an id that was already present left the array as it was,
\* totalPoints is the supplied value, and the tracker of achievementId has
\* completed = true.
AwardPostcondition ==
    [][(last'.op = "awardAchievement" /\ ~last'.rejected)
          => LET before == store[last'.userId]
                 after == store'[last'.userId]
             IN  /\ Occurrences(after.earnedAchievements, last'.id) = 1
                 /\ \A id \in CatalogIds(catalog) :
                        Occurrences(after.earnedAchievements, id) <= 1
                 /\ includes(before.earnedAchievements, last'.id)
                       => after.earnedAchievements = before.earnedAchievements
                 /\ after.totalPoints = last'.points
                 /\ after.progressTrackers[last'.id].completed
      ]_vars

\* C17 witness: the id awarded last stands first in earnedAchievements and
\* another id was appended after it, so the last award was for an id already
\* present; it is there once
AwardedAgain ==
    /\ last.op = "awardAchievement"
    /\ ~last.rejected
    /\ Len(store[last.userId].earnedAchievements) = 2
    /\ store[last.userId].earnedAchievements[1] = last.id
    /\ store[last.userId].earnedAchievements[2] # last.id
    /\ store[last.userId].totalPoints = last.points

\* C18: updateAchievementProgress(userId, achievementId, progress) merges
\* into the stored tracker: the fields of the stored tracker that progress
\* does not supply keep their value, the supplied fields take the supplied
\* value, lastUpdated is the time of the write, and the other trackers,
\* earnedAchievements and totalPoints are unchanged.
UpdateProgressMerges ==
    [][(last'.op = "updateAchievementProgress" /\ ~last'.rejected)
          => LET before == store[last'.userId]
                 after == store'[last'.userId]
                 id == last'.id
                 stored == IF id \in DOMAIN before.progressTrackers
                           THEN before.progressTrackers[id] ELSE EmptyMap
                 tracker == after.progressTrackers[id]
             IN  /\ \A field \in DOMAIN last'.progress :
                        tracker[field] = last'.progress[field]
                 /\ tracker.lastUpdated = now
                 /\ \A field \in (DOMAIN stored)
                                    \ (DOMAIN last'.progress \cup {"lastUpdated"}) :
                        /\ field \in DOMAIN tracker
                        /\ tracker[field] = stored[field]
                 /\ \A other \in (DOMAIN before.progressTrackers) \ {id} :
                        /\ other \in DOMAIN after.progressTrackers
                        /\ after.progressTrackers[other]
                               = before.progressTrackers[other]
                 /\ after.earnedAchievements = before.earnedAchievements
                 /\ after.totalPoints = before.totalPoints
      ]_vars

\* C19: a call of checkAchievements for user A reads and writes only the
\* aggregate of A: the snapshot it loads is the document of A, and each of
\* its steps leaves the aggregate of every other user B unchanged, however
\* the invocations for different users interleave.
PerUserIsolation ==
    [][/\ \A u \in Users :
             (last'.op \in CheckerOps /\ last'.userId # u)
             => store'[u] = store[u]
       /\ (last'.op = "call" /\ last'.loaded)
             => inv'[last'.inv].userAchievements = store[last'.userId]
       /\ \A i \in Invocations :
             Active(i)' => inv'[i].userAchievements.userId = inv'[i].userId
      ]_vars

\* C19 witness: an invocation for one user has just awarded while an
\* invocation for the other user, which loaded its snapshot before, is
\* still in progress; the other user's aggregate holds nothing earned
AwardBesideOtherUser ==
    /\ last.op = "award"
    /\ \E i \in Invocations :
          /\ Active(i)
          /\ inv[i].userId # last.userId
          /\ store[inv[i].userId] = initializeUserAchievements(inv[i].userId)
    /\ Earned(store[last.userId], last.id)

\* C20: a cumulative or streak achievement whose criteria.count is absent
\* is compared against 0: every evaluation of it for a user who has not
\* earned it, the first one included, reports achieved and awards it.
MissingCountDefaultsToZero ==
    (/\ last.op \in EvaluatedOps
     /\ LastDefinition.type \in {"cumulative", "streak"}
     /\ "count" \notin DOMAIN LastDefinition.criteria)
    => /\ last.result.achieved
       /\ last.op = "award"
       /\ Earned(store[last.userId], last.id)
       /\ store[last.userId].progressTrackers[last.id].completed

\* C20 witness: the streak achievement without count was evaluated for the
\* first time (no tracker in the snapshot) and awarded with a streak of 1,
\* and the cumulative achievement without count is earned as well
CountlessAwardedAtOnce ==
    /\ catalog = CountlessCatalog
    /\ last.op = "award"
    /\ Earned(store[last.userId], "goal_once")
    /\ LastDefinition.type = "streak"
    /\ "count" \notin DOMAIN LastDefinition.criteria
    /\ last.progress.lastUpdated = NullTs
    /\ last.result.progress.currentStreak = 1
    /\ Earned(store[last.userId], last.id)

\* C21: a social achievement is never earned or advanced: whatever the
\* contextData and the events before, its evaluation issues neither award
\* nor updateProgress (nor is it skipped as earned), its id is not in
\* earnedAchievements and progressTrackers has no entry for it.
SocialNeverEarned ==
    /\ \A u \in Users : \A k \in 1..Len(catalog) :
          (store[u].exists /\ catalog[k].type = "social")
          => /\ ~includes(store[u].earnedAchievements, catalog[k].id)
             /\ catalog[k].id \notin DOMAIN store[u].progressTrackers
    /\ (last.op \in {"skip", "none", "award", "update", "error"}
           /\ LastDefinition.type = "social")
          => last.op = "none"

\* C21 witness: the social achievement share was evaluated by a meal_log
\* call with a photo, after the achievements before it in the call were
\* earned, and nothing was written for it
SocialEvaluatedWithoutWrite ==
    /\ last.op = "none"
    /\ LastDefinition.type = "social"
    /\ last.data = [hasPhoto |-> Bool(TRUE)]
    /\ Earned(store[last.userId], "first_meal_log")
    /\ Earned(store[last.userId], "photo_meal")
    /\ last.id \notin DOMAIN store[last.userId].progressTrackers

\* the checks onMealLogged owes for a meal: meal_log always, then photo_log
\* iff hasPhoto, then late_night_log iff the hour is >= 22 or < 4
ExpectedChecks(hour, hasPhoto) ==
    <<"meal_log">>
        \o (IF hasPhoto THEN <<"photo_log">> ELSE <<>>)
        \o (IF hour >= 22 \/ hour < 4 THEN <<"late_night_log">> ELSE <<>>)

IsPrefix(s, t) == Len(s) <= Len(t) /\ SubSeq(t, 1, Len(s)) = s

\* C22: onMealLogged issues its checks in order, each after the one before
\* has completed: a check starts only while no check is in progress, the
\* checks made so far are always a prefix of meal_log, photo_log iff
\* hasPhoto, late_night_log iff hour >= 22 or hour < 4, and at the return
\* they are that whole list; when a check fails, onMealLogged ends with the
\* error, the store is as the failed check left it, and no later check is
\* issued.
MealChecksInOrder ==
    [][/\ last'.op = "call"
          => /\ ~Active(CheckFrame)
             /\ inv'[TriggerFrame].issued
                    = Append(inv[TriggerFrame].issued, last'.action)
             /\ IsPrefix(inv'[TriggerFrame].issued,
                         ExpectedChecks(inv[TriggerFrame].hour,
                                        inv[TriggerFrame].hasPhoto))
       /\ last'.op = "return"
          => /\ last'.issued = ExpectedChecks(last'.hour, last'.hasPhoto)
             /\ ~Active(CheckFrame)
             /\ ~Active(TriggerFrame)'
       /\ last'.op = "error"
          => /\ IsPrefix(last'.issued,
                         ExpectedChecks(last'.hour, last'.hasPhoto))
             /\ last'.issued[Len(last'.issued)] = last'.action
             /\ store' = store
             /\ ~Active(CheckFrame)'
             /\ ~Active(TriggerFrame)'
       /\ last.op = "error" => last'.op \notin (CheckerOps \cup {"return"})
      ]_vars

\* C22 witness: a meal with a photo logged at 23h went through the three
\* checks in order and onMealLogged has returned
ThreeChecksReturned ==
    /\ last.op = "return"
    /\ last.hour = 23
    /\ last.hasPhoto
    /\ last.issued = <<"meal_log", "photo_log", "late_night_log">>
    /\ Earned(store[last.userId], "first_meal_log")
    /\ "photo_trio" \in DOMAIN store[last.userId].progressTrackers

\* C23: for an initialized user, every onMealLogged call whose timestamp
\* has hour 22 or 23 and that returns leaves night_owl earned.
NightOwlAfterTen ==
    (/\ last.op = "return"
     /\ last.hour \in {22, 23}
     /\ store[last.userId].exists)
    => Earned(store[last.userId], "night_owl")

\* C24: a streak event evaluated on the calendar day of the tracker's
\* lastUpdated leaves currentStreak as it was: the rule reports the stored
\* currentStreak, neither one more nor a restart at 1.
StreakSameDayUnchanged ==
    (/\ StreakEvaluated
     /\ last.progress.lastUpdated # NullTs
     /\ now = last.progress.lastUpdated)
    => last.result.progress.currentStreak
           = OrZero(last.progress, "currentStreak")

\* the stored trackers of user u that carry the streak fields
StreakTrackers(doc) ==
    IF doc.exists
    THEN {id \in DOMAIN doc.progressTrackers :
             /\ Definition(catalog, id).type = "streak"
             /\ "currentStreak" \in DOMAIN doc.progressTrackers[id]}
    ELSE {}

\* C25: with calls run one at a time, every streak tracker the checker has
\* stored has highestStreak >= currentStreak >= 1, the same holds of the
\* progress each streak evaluation reports, and no step of the checker
\* lowers the highestStreak of an achievement that stays unearned.
StreakBounds ==
    [][/\ \A u \in Users : \A id \in StreakTrackers(store'[u]) :
             LET tracker == store'[u].progressTrackers[id]
             IN  tracker.highestStreak >= tracker.currentStreak
                 /\ tracker.currentStreak >= 1
       /\ StreakEvaluated'
             => /\ last'.result.progress.highestStreak
                       >= last'.result.progress.currentStreak
                /\ last'.result.progress.currentStreak >= 1
       /\ \A u \in Users : \A id \in StreakTrackers(store[u]) :
             (last'.op \in CheckerOps /\ ~Earned(store'[u], id))
             => /\ id \in StreakTrackers(store'[u])
                /\ store'[u].progressTrackers[id].highestStreak
                       >= store[u].progressTrackers[id].highestStreak
      ]_vars

\* C25 witness: a streak of 2 was broken: the evaluation restarted
\* currentStreak at 1 and the stored highestStreak is still 2
BrokenStreakKeepsHighest ==
    /\ last.op = "update"
    /\ LastDefinition.type = "streak"
    /\ OrZero(last.progress, "currentStreak") = 2
    /\ store[last.userId].progressTrackers[last.id].currentStreak = 1
    /\ store[last.userId].progressTrackers[last.id].highestStreak = 2

\* the elements of an array
Range(arr) == {arr[k] : k \in 1..Len(arr)}

\* the orders in which the candidates docs can be processed
Orders(docs) ==
    LET n == Len(docs)
    IN  {[k \in 1..n |-> docs[f[k]]] :
            f \in {g \in [1..n -> 1..n] : \A a, b \in 1..n :
                                              g[a] = g[b] => a = b}}

\* C26: for a single checkAchievements call from a given store state, the
\* progressTrackers and the set of earnedAchievements that result are the
\* same for every order in which the candidates of the action are
\* processed.
CandidateOrderIrrelevant ==
    \A u \in Users :
        (store[u].exists /\ ~Busy(u))
        => \A action \in Actions :
             LET docs == listByAction(catalog, action)
                 orders == Orders(docs)
             IN  \A data \in ContextData :
                    LET doc == RunLoop(store[u], store[u], docs, data, now)
                    IN  \A order \in orders :
                           LET other == RunLoop(store[u], store[u], order,
                                                data, now)
                           IN  /\ other.progressTrackers = doc.progressTrackers
                               /\ Range(other.earnedAchievements)
                                      = Range(doc.earnedAchievements)

\* C26 witness: a meal_log call that wrote for several candidates has
\* completed (two ids earned, a count stored for meal_pair), and from the
\* state reached a further call still writes, with an outcome that is the
\* same in every order
SeveralCandidatesWritten ==
    /\ last.op \in WriteOps
    /\ last.id = "meal_pair"
    /\ ~Busy(last.userId)
    /\ Earned(store[last.userId], "first_meal_log")
    /\ Earned(store[last.userId], "photo_meal")
    /\ StoredCount(store[last.userId], "meal_pair") = 1

\* C27: completed is set only by award: under any interleaving of
\* checkAchievements invocations, every stored tracker with completed =
\* true has its id in earnedAchievements, and an updateProgress issued by
\* checkAchievements carries and stores completed = false.
CompletedOnlyByAward ==
    /\ \A u \in Users :
          store[u].exists
          => \A id \in DOMAIN store[u].progressTrackers :
                store[u].progressTrackers[id].completed
                => includes(store[u].earnedAchievements, id)
    /\ last.op = "update"
          => /\ ~last.result.progress.completed
             /\ ~store[last.userId].progressTrackers[last.id].completed

\* C27 witness: while another invocation is in progress, an invocation has
\* stored progress for photo_trio with completed = false, next to the
\* completed tracker of the earned first_meal_log
UpdateBesideCompleted ==
    /\ last.op = "update"
    /\ last.id = "photo_trio"
    /\ \E i \in Invocations : Active(i) /\ i # last.inv
    /\ Earned(store[last.userId], "first_meal_log")
    /\ store[last.userId].progressTrackers["first_meal_log"].completed
    /\ ~store[last.userId].progressTrackers["photo_trio"].completed

\* C28: rewards are never counted twice: after a single initialize and
\* under any interleaving of checkAchievements invocations, two overlapping
\* awards of one achievement included, totalPoints is at most the sum of
\* reward.points over earnedAchievements.
NoDoubleCounting ==
    \A u \in Users :
        store[u].exists
        => store[u].totalPoints
               <= SumPoints(catalog, store[u].earnedAchievements)

\* C28 witness: first_meal_log was awarded a second time, by an invocation
\* that had loaded its snapshot before the first award (photo_trio was
\* appended in between), and totalPoints is the 10 points of that award
AwardedTwiceCountedOnce ==
    /\ last.op = "award"
    /\ last.id = "first_meal_log"
    /\ store[last.userId].earnedAchievements
           = <<"first_meal_log", "photo_trio">>
    /\ store[last.userId].totalPoints = 10

\* the field of a tracker that the rule of the achievement counts in
Counted(definition, tracker) ==
    IF definition.type = "cumulative"
    THEN OrZero(tracker, "currentCount")
    ELSE OrZero(tracker, "currentStreak")

\* a cumulative or streak achievement with criteria.count >= 1
HasThreshold(definition) ==
    /\ definition.type \in {"cumulative", "streak"}
    /\ "count" \in DOMAIN definition.criteria
    /\ definition.criteria.count >= 1

\* C29: for a cumulative (resp. streak) achievement with criteria.count >=
\* 1, under any interleaving of invocations: a tracker written by
\* updateProgress has currentCount (resp. currentStreak) below
\* criteria.count, so has every stored tracker that is not completed, and an
\* evaluation that reaches criteria.count awards.
ProgressBelowThreshold ==
    /\ (last.op \in EvaluatedOps /\ HasThreshold(LastDefinition))
          => IF Counted(LastDefinition, last.result.progress)
                    >= LastDefinition.criteria.count
             THEN last.op = "award"
             ELSE /\ last.op = "update"
                  /\ Counted(LastDefinition,
                             store[last.userId].progressTrackers[last.id])
                         < LastDefinition.criteria.count
    /\ \A u \in Users :
          store[u].exists
          => \A id \in DOMAIN store[u].progressTrackers :
                (HasThreshold(Definition(catalog, id))
                    /\ ~store[u].progressTrackers[id].completed)
                => Counted(Definition(catalog, id),
                           store[u].progressTrackers[id])
                       < Definition(catalog, id).criteria.count

\* C29 witness: while another invocation for the user is in progress,
\* updateProgress has stored the count just below the threshold of the
\* cumulative achievement
UpdateJustBelowThreshold ==
    /\ last.op = "update"
    /\ LastDefinition.type = "cumulative"
    /\ store[last.userId].progressTrackers[last.id].currentCount
           = LastDefinition.criteria.count - 1
    /\ \E i \in Invocations : Active(i) /\ i # last.inv

\* a Date on the day of the clock with the given index
DateOfDay(day) == [t |-> "object", v |-> day]

\* the contextData of onDailyActivityCompleted and onDailyCalorieGoalMet
DateData ==
    { [date |-> DateOfDay(0)],
      [date |-> DateOfDay(1)],
      [date |-> DateOfDay(0), targetCalories |-> Num(2000),
       actualCalories |-> Num(1900)] }

\* the actions whose candidates are all cumulative or streak achievements
CountingActions ==
    {action \in Actions :
        \A k \in 1..Len(catalog) :
            catalog[k].criteria.action = action
            => catalog[k].type \in {"cumulative", "streak"}}

\* C30: the outcome for a cumulative or streak achievement does not depend
\* on contextData: from one store state and one clock, the rule reports the
\* same result for every contextData, and two checkAchievements calls for an
\* action with only such candidates that differ in contextData alone leave
\* the same store state.
OutcomeIgnoresContextData ==
    \A u \in Users :
        (store[u].exists /\ ~Busy(u))
        => \A data \in ContextData \cup DateData :
             /\ \A k \in 1..Len(catalog) :
                   catalog[k].type \in {"cumulative", "streak"}
                   => checkSingleAchievement(catalog[k], data, store[u], now)
                         = checkSingleAchievement(catalog[k], EmptyMap,
                                                  store[u], now)
             /\ \A action \in CountingActions :
                   checkAchievements(store[u], catalog, action, data, now)
                       = checkAchievements(store[u], catalog, action,
                                           EmptyMap, now)

\* C30 witness: a streak was advanced to 2 by a call that carried a
\* contextData, the day after a call without contextData had started it
StreakAdvancedWithData ==
    /\ last.op = "update"
    /\ LastDefinition.type = "streak"
    /\ last.data = [timeAfter |-> Str("22:00"), hasPhoto |-> Bool(TRUE)]
    /\ ~Busy(last.userId)
    /\ store[last.userId].progressTrackers[last.id].currentStreak = 2

====
